---- MODULE Spec2Model ----
(***************************************************************************)
(* A model of cprovlib's CryptoCLI.SignDocument: the workspace it creates,  *)
(* the cryptcp command it builds, the retry loop that runs cryptcp and      *)
(* classifies each attempt from the exit error, the captured text and the   *)
(* presence of the signature file, and the values it returns.               *)
(*                                                                         *)
(* Texts (stdout, stderr, error texts) are sequences of tokens; a token is  *)
(* a run of characters that the searched markers either contain whole or    *)
(* not at all, so strings.ToLower and strings.Contains are computed on the  *)
(* token sequence.  Byte strings are sequences of 0..255; a base64 string   *)
(* is the sequence of its digits' values (0..63), 64 for '=' and 65 for a   *)
(* character outside the alphabet.                                          *)
(***************************************************************************)
EXTENDS Integers, Sequences, FiniteSets, TLC

(* ------------------------------ bounds --------------------------------- *)

\* number of SignDocument calls that may be in flight on one CryptoCLI
MaxRequests == 2

\* the program's retry limit (const maxAttempts)
maxAttempts == 3

Requests == 1..MaxRequests

\* names os.MkdirTemp can generate under tmpDir ("cprov_*")
DirNames == 1..MaxRequests

(* ------------------------------ texts ---------------------------------- *)

Range(s) == {s[i] : i \in DOMAIN s}

\* strings.ToLower on one token
LowerTok(t) ==
    CASE t = "HTTP" -> "http"
      [] t = "Http" -> "http"
      [] t = "Error" -> "error"
      [] t = "ERROR" -> "error"
      [] t = "M" -> "m"
      [] t = "Y" -> "y"
      [] t = "C" -> "c"
      [] t = "A" -> "a"
      [] t = "U" -> "u"
      [] OTHER -> t

\* strings.ToUpper on one token
UpperTok(t) ==
    CASE t = "m" -> "M"
      [] t = "y" -> "Y"
      [] t = "c" -> "C"
      [] t = "a" -> "A"
      [] t = "u" -> "U"
      [] OTHER -> t

\* strings.ToLower
ToLower(s) == [i \in DOMAIN s |-> LowerTok(s[i])]

\* strings.HasPrefix
HasPrefix(s, p) == Len(s) >= Len(p) /\ SubSeq(s, 1, Len(p)) = p

\* strings.Contains
Contains(s, sub) ==
    \E i \in 0..(Len(s) - Len(sub)) : SubSeq(s, i + 1, i + Len(sub)) = sub

\* the text of a Go error under %v; a nil error prints as <nil>
ErrText(e) == IF e = "nil" THEN <<"<nil>">> ELSE <<e>>

\* ErrorText without strings.ToLower
ErrorTextNoLower(e, out, errout) ==
    ErrText(e) \o <<" ">> \o out \o <<" ">> \o errout

\* strings.ToLower(fmt.Sprintf("%v %s %s", err, stdoutStr, stderrStr))
ErrorText(e, out, errout) ==
    ToLower(ErrText(e) \o <<" ">> \o out \o <<" ">> \o errout)

HasErrorInOutput(text) == Contains(text, <<"error", ":">>)

IsHTTPError(text) == Contains(text, <<"http", " ", "error">>)

(* ------------------------------ base64 --------------------------------- *)

Pad == 64

\* Base64Encode returning the bytes as they are
Base64EncodeRaw(b) == b

RECURSIVE Base64Encode(_)
\* base64.StdEncoding.EncodeToString
Base64Encode(b) ==
    IF Len(b) = 0 THEN <<>>
    ELSE IF Len(b) = 1 THEN
        <<b[1] \div 4, (b[1] % 4) * 16, Pad, Pad>>
    ELSE IF Len(b) = 2 THEN
        <<b[1] \div 4, (b[1] % 4) * 16 + b[2] \div 16, (b[2] % 16) * 4, Pad>>
    ELSE
        <<b[1] \div 4, (b[1] % 4) * 16 + b[2] \div 16,
          (b[2] % 16) * 4 + b[3] \div 64, b[3] % 64>>
        \o Base64Encode(SubSeq(b, 4, Len(b)))

\* Base64Valid looking at the length alone
Base64ValidLengthOnly(s) == Len(s) % 4 = 0

\* whether base64.StdEncoding.DecodeString accepts s
Base64Valid(s) ==
    /\ Len(s) % 4 = 0
    /\ \A i \in DOMAIN s : s[i] <= Pad
    /\ \A i \in DOMAIN s : s[i] = Pad =>
          /\ i >= Len(s) - 1
          /\ \A j \in i..Len(s) : s[j] = Pad

RECURSIVE Base64Decode(_)
\* base64.StdEncoding.DecodeString on an accepted string
Base64Decode(s) ==
    IF Len(s) = 0 THEN <<>>
    ELSE LET a == s[1]
             b == s[2]
             c == s[3]
             d == s[4]
             b1 == a * 4 + b \div 16
             b2 == (b % 16) * 16 + c \div 4
             b3 == (c % 4) * 64 + d
         IN  IF c = Pad THEN <<b1>>
             ELSE IF d = Pad THEN <<b1, b2>>
             ELSE <<b1, b2, b3>> \o Base64Decode(SubSeq(s, 5, Len(s)))

(* --------------------------- the CryptoCLI ------------------------------ *)

DefaultTSPServers ==
    << <<"qs.cryptopro.ru">>, <<"pki.tax.gov.ru">>, <<"tax4.tensor.ru">> >>

\* New(store, tspServers, signType, logger, skipChainValidation)
New(store, tspServers, signType, skipChainValidation) ==
    [store |-> store,
     tspServers |-> IF Len(tspServers) = 0 THEN DefaultTSPServers ELSE tspServers,
     signType |-> signType,
     skipChainValidation |-> skipChainValidation]

\* GetRandomTSPServer taking a pool of one server for an empty one
GetRandomTSPServerNoSingle(pool) ==
    IF Len(pool) <= 1 THEN {<<>>}
    ELSE {pool[i] : i \in 1..Len(pool)}

\* the values getRandomTSPServer can return for a pool; the empty string is <<>>
GetRandomTSPServer(pool) ==
    IF Len(pool) = 0 THEN {<<>>}
    ELSE IF Len(pool) = 1 THEN {pool[1]}
    ELSE {pool[i] : i \in 1..Len(pool)}

\* formatStoreOption: "MY" -> "-uMy", "uMy" -> "-uMy"; a store is its characters
FormatStoreOption(store) ==
    LET lowerStore == ToLower(store)
    IN  IF HasPrefix(lowerStore, <<"u">>) \/ HasPrefix(lowerStore, <<"m">>)
        THEN <<"-">> \o store
        ELSE IF Len(store) > 0
        THEN <<"-", "u">> \o <<UpperTok(store[1])>> \o ToLower(Tail(store))
        ELSE <<"-", "u">> \o store

\* isAttached := attachSignature != nil && *attachSignature
IsAttached(attachSignature) == attachSignature = "true"

\* fileExt: ".sig" for an attached signature, ".sgn" for a detached one
FileExt(isAttached) == IF isAttached THEN ".sig" ELSE ".sgn"

\* effectiveSignType: the signType argument when given (-1 is the nil pointer)
EffectiveSignType(c, signType) == IF signType # -1 THEN signType ELSE c.signType

\* the arguments up to the CAdES type: -sign, store, thumbprint, pin, flags
ArgsHead(c, thumbprint, pin, isAttached) ==
    << <<"-sign">>, FormatStoreOption(c.store),
       <<"-thumbprint">>, thumbprint, <<"-pin">>, pin >>
    \o (IF c.skipChainValidation THEN << <<"-nochain">>, <<"-norev">> >> ELSE <<>>)
    \o (IF isAttached THEN << <<"-attached">> >> ELSE << <<"-detached">> >>)
    \o << <<"-der">> >>

\* the CAdES type arguments: -cadest -cadestsa URL, or -cadesbes
ArgsCades(effectiveSignType, selectedTSP) ==
    IF effectiveSignType = 1
    THEN << <<"-cadest">>, <<"-cadestsa">>, selectedTSP >>
    ELSE << <<"-cadesbes">> >>

\* ArgsTail with the extension of a detached signature, whatever the mode
ArgsTailFixedExt(isAttached) == << <<"data.txt">>, <<"-fext">>, <<".sgn">> >>

\* the input file and the extension of the output file
ArgsTail(isAttached) == << <<"data.txt">>, <<"-fext">>, <<FileExt(isAttached)>> >>

(* ------------------------- errors and results -------------------------- *)

\* a nil lastErr
NoDiag == [attempt |-> 0, msg |-> "nil", err |-> "nil", stdout |-> <<>>, stderr |-> <<>>]

\* the error value nil
NilErr == [wraps |-> "nil", msg |-> "nil", diag |-> NoDiag]

\* Errorf formatting the sentinel with %v: the text is kept, nothing is wrapped
ErrorfNoWrap(wraps, msg, diag) == [wraps |-> "nil", msg |-> msg, diag |-> diag]

\* fmt.Errorf("%w: msg: %v", wraps, diag): the error wraps the sentinel `wraps`
\* (errors.Is finds it) and carries the text of diag
Errorf(wraps, msg, diag) == [wraps |-> wraps, msg |-> msg, diag |-> diag]

ErrSignature == "ErrSignature"

\* IOCause leaving the error of the file operation out of the message
IOCauseDropped(e) == NoDiag

\* the text of the error of a file operation, formatted with %v into the message
IOCause(e) == [NoDiag EXCEPT !.err = e]

\* errors.Is(e, sentinel)
ErrorsIs(e, sentinel) == e.wraps = sentinel

\* the result of cmd.Run before any attempt has run
NoResult == [err |-> "nil", stdout |-> <<>>, stderr |-> <<>>]

\* AttemptSucceeded without the test of the exit error
AttemptSucceededNoErr(res, signFileExists) ==
    /\ signFileExists
    /\ ~HasErrorInOutput(ErrorText("nil", res.stdout, res.stderr))

\* AttemptSucceeded without the test of the signature file
AttemptSucceededNoFile(res, signFileExists) ==
    /\ res.err = "nil"
    /\ ~HasErrorInOutput(ErrorText(res.err, res.stdout, res.stderr))

\* the success test of one attempt:
\* err == nil && signFileExists && !hasErrorInOutput
AttemptSucceeded(res, signFileExists) ==
    /\ res.err = "nil"
    /\ signFileExists
    /\ ~HasErrorInOutput(ErrorText(res.err, res.stdout, res.stderr))

\* the message of lastErr for a failed attempt
FailureMsg(res, signFileExists) ==
    IF ~signFileExists THEN "signature file not created"
    ELSE IF HasErrorInOutput(ErrorText(res.err, res.stdout, res.stderr))
    THEN "cryptcp reported error in output"
    ELSE "cryptcp failed"

\* lastErr for attempt n; the attempt number stands for the duration and the
\* output the message quotes, which belong to that attempt alone
AttemptError(n, res, signFileExists) ==
    [attempt |-> n, msg |-> FailureMsg(res, signFileExists),
     err |-> res.err, stdout |-> res.stdout, stderr |-> res.stderr]

\* RetriesAfter retrying whatever the text says
RetriesAfterAnyFailure(n, res) == n # maxAttempts

\* RetriesAfter without the limit on the number of attempts
RetriesAfterNoLimit(n, res) ==
    IsHTTPError(ErrorText(res.err, res.stdout, res.stderr))

\* whether the loop goes on to another attempt after a failed attempt n:
\* not when attempt == maxAttempts, not when the text has no "http error"
RetriesAfter(n, res) ==
    /\ n # maxAttempts
    /\ IsHTTPError(ErrorText(res.err, res.stdout, res.stderr))

\* the classification of an attempt, as the loop acts on it
Outcome(res, signFileExists) ==
    IF AttemptSucceeded(res, signFileExists) THEN "Success"
    ELSE IF IsHTTPError(ErrorText(res.err, res.stdout, res.stderr)) THEN "Retryable"
    ELSE "Fatal"

(* ----------------------------- filesystem ------------------------------ *)

\* the content of a file that does not exist
NoFile == <<-1>>

DataFile == <<"data.txt">>

\* signFile := workDir + "/data.txt" + fileExt
SignFile(fileExt) == <<"data.txt", fileExt>>

FileNames == {DataFile, SignFile(".sig"), SignFile(".sgn")}

NoDir == [exists |-> FALSE, files |-> [f \in FileNames |-> NoFile]]

EmptyDir == [exists |-> TRUE, files |-> [f \in FileNames |-> NoFile]]

\* the signature cryptcp writes for the data file of its working directory
ToolSign(data) == <<48>> \o data

(* ------------------------------- state --------------------------------- *)

VARIABLES
    cli,    \* the CryptoCLI: store, tspServers, signType, skipChainValidation
    fs,     \* the directories under tmpDir, by generated name
    call,   \* per SignDocument call: its arguments, locals, position and result
    log     \* per call: the calls it made to the Logger

vars == <<cli, fs, call, log>>

\* a call that has not been made
Idle ==
    [pc |-> "idle",
     thumbprint |-> <<>>, pin |-> <<>>, dataBase64 |-> <<>>,
     attachSignature |-> "nil", signType |-> -1,
     ctxErr |-> "nil",          \* ctx.Err() of the caller's context
     signCtxErr |-> "nil",      \* signCtx.Err(), of the 5 minute context
     data |-> <<>>, workDir |-> 0, fileExt |-> ".sgn", args |-> <<>>,
     selectedTSP |-> <<>>, effectiveSignType |-> 0,
     attempt |-> 0, lastErr |-> NoDiag, res |-> NoResult,
     sig |-> <<>>, err |-> NilErr,       \* the values returned
     numExec |-> 0,             \* history: executions of cryptcp (cmd.Run() calls)
     procs |-> 0,               \* history: cryptcp processes of the call now alive
     killed |-> FALSE,          \* history: a process was killed because signCtx ended
     ctxDoneEarly |-> FALSE,    \* history: ctx was done before the loop was entered
     ioErr |-> "nil",           \* history: the error of a failed MkdirTemp or WriteFile
     wrote |-> FALSE,           \* history: the process awaiting classification wrote
                                \* the signature file
     numSelect |-> 0,           \* history: calls of getRandomTSPServer
     usedTSP |-> <<>>,          \* history: the TSP server each execution was given
     outcomes |-> <<>>,         \* history: the classification of each attempt
     delays |-> <<>>,           \* history: the seconds slept before each retry
     removed |-> "pending"]     \* history: the outcome of the deferred RemoveAll

\* a call to the Logger: level, message, and those of the fields passed with it
\* that are strings of the call's arguments or of the configuration
LogEntry(level, msg, values) == [level |-> level, msg |-> msg, values |-> values]

\* Return without the deferred calls
ReturnNoDefer(c, sig, err) == [c EXCEPT !.pc = "done", !.sig = sig, !.err = err]

\* return sig, err (the deferred calls run in Release)
Return(c, sig, err) == [c EXCEPT !.pc = "cleanup", !.sig = sig, !.err = err]

(* ------------------------------ actions -------------------------------- *)

\* SignDocument is called; base64.StdEncoding.DecodeString(dataBase64)
Call(r, in) ==
    /\ call[r].pc = "idle"
    /\ LET c == [call[r] EXCEPT !.thumbprint = in.thumbprint, !.pin = in.pin,
                                !.dataBase64 = in.dataBase64,
                                !.attachSignature = in.attachSignature,
                                !.signType = in.signType]
       IN  call' = [call EXCEPT ![r] =
              IF Base64Valid(in.dataBase64)
              THEN [c EXCEPT !.pc = "mkdir", !.data = Base64Decode(in.dataBase64)]
              ELSE [c EXCEPT !.pc = "done",
                             !.err = Errorf(ErrSignature, "base64 decode", NoDiag)]]
    /\ UNCHANGED <<cli, fs, log>>

\* FreeDirs of a fixed directory name: a directory that exists is used again
FreeDirsFixedName == {1}

\* the names os.MkdirTemp may create: it creates the directory exclusively
FreeDirs == {d \in DirNames : ~fs[d].exists}

\* workDir, err := os.MkdirTemp(c.tmpDir, "cprov_*")
MkdirTemp(r, e) ==
    /\ call[r].pc = "mkdir"
    /\ IF e = "nil"
       THEN \E d \in FreeDirs :
               /\ fs' = [fs EXCEPT ![d] = EmptyDir]
               /\ call' = [call EXCEPT ![r].pc = "write", ![r].workDir = d]
       ELSE /\ call' = [call EXCEPT ![r].pc = "done", ![r].ioErr = e,
                   ![r].err = Errorf(ErrSignature, "create work directory", IOCause(e))]
            /\ fs' = fs
    /\ UNCHANGED <<cli, log>>

\* the values passed to the Logger with "cryptcp args"
ArgsLogValues(args) == Range(args)

\* the values passed to the Logger with "cryptcp starting"
StartLogValues(c) ==
    {c.thumbprint} \cup (IF c.selectedTSP # <<>> THEN {c.selectedTSP} ELSE {})

\* TSPMissing without the test: the command is built with an empty TSP URL
TSPMissingNever(est, sel) == FALSE

\* selectedTSP == "" for a CAdES-T signature: no TSP server is configured
TSPMissing(est, sel) == est = 1 /\ sel = <<>>

\* CtxCheckFails without the check: the call goes on with a ctx that is done
CtxCheckSkipped(c) == FALSE

\* ctx.Err() != nil before the first attempt
CtxCheckFails(c) == c.ctxErr # "nil"

\* os.WriteFile(dataFilePath, ...), the command arguments, the TSP server,
\* the check of ctx.Err() before the first attempt, and signCtx
Prepare(r, e, tsp) ==
    /\ call[r].pc = "write"
    /\ tsp \in GetRandomTSPServer(cli.tspServers)
    /\ LET c == call[r]
           isAttached == IsAttached(c.attachSignature)
           est == EffectiveSignType(cli, c.signType)
           sel == IF est = 1 THEN tsp ELSE <<>>
           args == ArgsHead(cli, c.thumbprint, c.pin, isAttached)
                   \o ArgsCades(est, sel) \o ArgsTail(isAttached)
           c1 == [c EXCEPT !.fileExt = FileExt(isAttached),
                           !.effectiveSignType = est, !.selectedTSP = sel,
                           !.numSelect = IF est = 1 THEN 1 ELSE 0]
           c2 == [c1 EXCEPT !.args = args]
       IN  IF e # "nil"
           THEN /\ call' = [call EXCEPT ![r] =
                      Return([c EXCEPT !.ioErr = e], <<>>,
                             Errorf(ErrSignature, "write data file", IOCause(e)))]
                /\ UNCHANGED <<fs, log>>
           ELSE /\ fs' = [fs EXCEPT ![c.workDir].files[DataFile] = c.data]
                /\ IF TSPMissing(est, sel)
                   THEN /\ call' = [call EXCEPT ![r] = Return(c1, <<>>,
                              Errorf(ErrSignature, "TSP server is required", NoDiag))]
                        /\ log' = log
                   ELSE IF CtxCheckFails(c)
                   THEN /\ call' = [call EXCEPT ![r] = Return(c2, <<>>,
                              Errorf(ErrSignature,
                                     "context cancelled before cryptcp execution",
                                     NoDiag))]
                        /\ log' = [log EXCEPT ![r] = @ \cup
                              {LogEntry("debug", "cryptcp args", ArgsLogValues(args))}]
                   ELSE /\ call' = [call EXCEPT ![r] =
                              [c2 EXCEPT !.pc = "start", !.attempt = 1,
                                         !.signCtxErr = c.ctxErr]]
                        /\ log' = [log EXCEPT ![r] = @ \cup
                              {LogEntry("debug", "cryptcp args", ArgsLogValues(args)),
                               LogEntry("info", "cryptcp starting", StartLogValues(c2))}]
    /\ UNCHANGED cli

\* Backoff counted from the attempt that failed: attempt - 2 seconds
BackoffOfFailedAttempt(n) == n - 2

\* the seconds slept before attempt n: time.Second * time.Duration(attempt-1)
Backoff(n) == n - 1

\* attempt > 1: the "retrying signature" warning and time.Sleep
Sleep(r) ==
    /\ call[r].pc = "sleep"
    /\ call' = [call EXCEPT ![r].pc = "start",
                            ![r].delays = Append(@, Backoff(call[r].attempt))]
    /\ log' = [log EXCEPT ![r] = @ \cup
          {LogEntry("warn", "retrying signature", {})}]
    /\ UNCHANGED <<cli, fs>>

\* the value that follows -cadestsa in args, "" when there is none
TSPArg(args) ==
    IF \E i \in DOMAIN args : args[i] = <<"-cadestsa">>
    THEN args[(CHOOSE i \in DOMAIN args : args[i] = <<"-cadestsa">>) + 1]
    ELSE <<>>

\* UsedTSP taking, for a retry, the next server of the pool
UsedTSPReselected(c) ==
    IF c.effectiveSignType # 1 THEN <<>>
    ELSE IF c.attempt = 1 THEN TSPArg(c.args)
    ELSE cli.tspServers[(c.attempt % Len(cli.tspServers)) + 1]

\* the TSP server in the command of this attempt:
\* exec.CommandContext(signCtx, c.cryptcpPath, args...) with the args built
\* before the loop
UsedTSP(c) == TSPArg(c.args)

\* StartProc with cmd.Start() for cmd.Run(): the call does not wait for cryptcp
StartProcNoWait(r) ==
    /\ call[r].pc = "start"
    /\ call' = [call EXCEPT ![r] =
          [@ EXCEPT !.pc = "classify", !.numExec = @ + 1, !.procs = @ + 1,
                    !.usedTSP = Append(@, UsedTSP(call[r])),
                    !.res = [err |-> "nil", stdout |-> <<>>, stderr |-> <<>>]]]
    /\ UNCHANGED <<cli, fs, log>>

\* cmd.Run() starts cryptcp in workDir, or fails at once when signCtx is done
StartProc(r) ==
    /\ call[r].pc = "start"
    /\ call' = [call EXCEPT ![r] =
          IF call[r].signCtxErr # "nil"
          THEN [@ EXCEPT !.pc = "classify", !.numExec = @ + 1,
                         !.usedTSP = Append(@, UsedTSP(call[r])),
                         !.res = [err |-> call[r].signCtxErr,
                                  stdout |-> <<>>, stderr |-> <<>>]]
          ELSE [@ EXCEPT !.pc = "running", !.numExec = @ + 1, !.procs = @ + 1,
                         !.usedTSP = Append(@, UsedTSP(call[r]))]]
    /\ UNCHANGED <<cli, fs, log>>

\* what cryptcp leaves in its working directory dir: with -fext ext it writes
\* data.txt<ext>, the signature of the data.txt it finds there
ToolWrites(dir, ext, file) ==
    IF file = "none" \/ ~dir.exists THEN dir
    ELSE [dir EXCEPT !.files[SignFile(ext)] =
            IF file = "sig" THEN ToolSign(dir.files[DataFile]) ELSE <<>>]

\* the -fext argument cryptcp was started with
FextArg(args) == args[Len(args)][1]

\* cryptcp exits: cmd.Run() returns its exit error, stdout and stderr
ProcExit(r, o) ==
    /\ call[r].pc = "running"
    /\ call' = [call EXCEPT ![r].pc = "classify", ![r].procs = @ - 1,
                            ![r].wrote = o.file # "none",
                            ![r].res = [err |-> o.err, stdout |-> o.stdout,
                                        stderr |-> o.stderr]]
    /\ fs' = [fs EXCEPT ![call[r].workDir] =
                 ToolWrites(@, FextArg(call[r].args), o.file)]
    /\ UNCHANGED <<cli, log>>

\* signCtx is done while cryptcp runs: exec kills it and cmd.Run() returns
ProcKill(r, o) ==
    /\ call[r].pc = "running"
    /\ call[r].signCtxErr # "nil"
    /\ call' = [call EXCEPT ![r].pc = "classify", ![r].procs = @ - 1,
                            ![r].killed = TRUE,
                            ![r].wrote = o.file # "none",
                            ![r].res = [err |-> "signal: killed", stdout |-> o.stdout,
                                        stderr |-> o.stderr]]
    /\ fs' = [fs EXCEPT ![call[r].workDir] =
                 ToolWrites(@, FextArg(call[r].args), o.file)]
    /\ UNCHANGED <<cli, log>>

\* os.Stat(signFile) succeeds
SignFileExists(c) ==
    /\ fs[c.workDir].exists
    /\ fs[c.workDir].files[SignFile(c.fileExt)] # NoFile

\* the Logger calls after cmd.Run(): "cryptcp completed", "cryptcp output"
RunLog(res) ==
    {LogEntry("info", "cryptcp completed", {})}
    \cup (IF res.stdout # <<>> \/ res.stderr # <<>>
          THEN {LogEntry("debug", "cryptcp output", {})}
          ELSE {})

\* the rest of the loop body after cmd.Run(): the attempt is classified and the
\* loop breaks or goes on to the next attempt
Classify(r) ==
    /\ call[r].pc = "classify"
    /\ LET c == call[r]
           exists == SignFileExists(c)
           e == AttemptError(c.attempt, c.res, exists)
           c1 == [c EXCEPT !.outcomes = Append(@, Outcome(c.res, exists)),
                           !.wrote = FALSE]
       IN  IF AttemptSucceeded(c.res, exists)
           THEN /\ call' = [call EXCEPT ![r] = [c1 EXCEPT !.pc = "finish"]]
                /\ log' = [log EXCEPT ![r] = @ \cup RunLog(c.res) \cup
                      {LogEntry("info", "signature created successfully", {})}]
           ELSE IF RetriesAfter(c.attempt, c.res)
           THEN /\ call' = [call EXCEPT ![r] =
                      [c1 EXCEPT !.pc = "sleep", !.lastErr = e,
                                 !.attempt = c.attempt + 1]]
                /\ log' = [log EXCEPT ![r] = @ \cup RunLog(c.res) \cup
                      {LogEntry("warn",
                                "detected HTTP error from TSP server, will retry", {})}]
           ELSE /\ call' = [call EXCEPT ![r] =
                      [c1 EXCEPT !.pc = "finish", !.lastErr = e]]
                /\ log' = [log EXCEPT ![r] = @ \cup RunLog(c.res) \cup
                      {IF c.attempt = maxAttempts
                       THEN LogEntry("error", "all retry attempts exhausted", {})
                       ELSE LogEntry("warn",
                                     "non-HTTP error detected, stopping retries", {})}]
    /\ UNCHANGED <<cli, fs>>

\* after the loop: lastErr, the final os.Stat, os.ReadFile and the encoding
Finish(r, readOk) ==
    /\ call[r].pc = "finish"
    /\ LET c == call[r]
       IN  IF c.lastErr # NoDiag
           THEN /\ call' = [call EXCEPT ![r] =
                      Return(c, <<>>, Errorf(ErrSignature, "attempt failed", c.lastErr))]
                /\ log' = log
           ELSE IF ~SignFileExists(c)
           THEN /\ call' = [call EXCEPT ![r] = Return(c, <<>>,
                      Errorf(ErrSignature, "signature file not created", NoDiag))]
                /\ log' = [log EXCEPT ![r] = @ \cup
                      {LogEntry("error", "signature file not created", {})}]
           ELSE IF ~readOk
           THEN /\ call' = [call EXCEPT ![r] = Return(c, <<>>,
                      Errorf(ErrSignature, "read signature file", NoDiag))]
                /\ log' = log
           ELSE /\ call' = [call EXCEPT ![r] = Return(c,
                      Base64Encode(fs[c.workDir].files[SignFile(c.fileExt)]), NilErr)]
                /\ log' = log
    /\ UNCHANGED <<cli, fs>>

\* the deferred calls: cancel(), os.RemoveAll(workDir) whose error is dropped,
\* span.End(); then the caller has the values returned
Release(r, removeOk) ==
    /\ call[r].pc = "cleanup"
    /\ call' = [call EXCEPT ![r].pc = "done",
                            ![r].removed = IF removeOk THEN "ok" ELSE "failed"]
    /\ fs' = [fs EXCEPT ![call[r].workDir] = IF removeOk THEN NoDir ELSE @]
    /\ UNCHANGED <<cli, log>>

\* the positions at which signCtx exists and its state is still to be read
InLoop == {"start", "sleep", "running"}

\* the caller cancels ctx, or the deadline of ctx passes (e is ctx.Err());
\* signCtx, derived from ctx, is done with it.  A ctx that ends after its last
\* reading by the call is not followed.
CtxDone(r, e) ==
    /\ call[r].pc \in {"idle", "mkdir", "write"} \cup InLoop
    /\ call[r].ctxErr = "nil"
    /\ call[r].signCtxErr = "nil"
    /\ call' = [call EXCEPT ![r].ctxErr = e,
                            ![r].ctxDoneEarly = call[r].pc \notin InLoop,
                            ![r].signCtxErr = IF call[r].pc \in InLoop THEN e ELSE "nil"]
    /\ UNCHANGED <<cli, fs, log>>

\* the timer of signCtx (context.WithTimeout(ctx, 5*time.Minute)) fires
Timeout(r) ==
    /\ call[r].pc \in InLoop
    /\ call[r].signCtxErr = "nil"
    /\ call' = [call EXCEPT ![r].signCtxErr = "context deadline exceeded"]
    /\ UNCHANGED <<cli, fs, log>>

(* ------------------------------ inputs --------------------------------- *)

Stores == {<<"M", "Y">>}

TSPServerLists == {<< <<"tsp.a">>, <<"tsp.b">> >>}

Thumbprints == {<<"AB12">>}

Pins == {<<"1234">>}

\* a well-formed payload ("TWE=", the bytes 77 97), one of a bad length, one
\* with a bad character
DataInputs == {<<19, 22, 4, Pad>>, <<19, 16>>, <<19, 16, 65, 20>>}

Inputs ==
    [thumbprint : Thumbprints, pin : Pins, dataBase64 : DataInputs,
     attachSignature : {"nil", "true"}, signType : {-1, 1}]

Stdouts == {<<>>, <<"HTTP", " ", "error">>, <<"Error", ":">>}

Stderrs == {<<>>, <<"Error", ":">>}

\* what one run of cryptcp may do: exit error, output, and the signature file
\* (not written, written, or written empty)
ToolOutcomes ==
    [err : {"nil", "exit status 1"}, stdout : Stdouts, stderr : Stderrs,
     file : {"none", "sig", "empty"}]

\* the error of os.MkdirTemp or os.WriteFile; "nil" is success
IOErrors == {"nil", "permission denied", "no space left on device"}

CtxErrors == {"context canceled", "context deadline exceeded"}

(* --------------------------- specification ----------------------------- *)

Init ==
    /\ cli \in {New(s, t, st, sk) : s \in Stores, t \in TSPServerLists,
                                    st \in {0, 1}, sk \in BOOLEAN}
    /\ fs = [d \in DirNames |-> NoDir]
    /\ call = [r \in Requests |-> Idle]
    /\ log = [r \in Requests |-> {}]

\* one SignDocument call, against any behaviour of cryptcp and of the caller
Next ==
    \E r \in {1} :
        \/ \E in \in Inputs : Call(r, in)
        \/ \E e \in IOErrors : MkdirTemp(r, e)
        \/ \E e \in IOErrors, tsp \in GetRandomTSPServer(cli.tspServers) :
              Prepare(r, e, tsp)
        \/ Sleep(r)
        \/ StartProc(r)
        \/ \E o \in ToolOutcomes : ProcExit(r, o)
        \/ \E o \in ToolOutcomes : ProcKill(r, o)
        \/ Classify(r)
        \/ \E ok \in BOOLEAN : Finish(r, ok)
        \/ \E ok \in BOOLEAN : Release(r, ok)
        \/ \E e \in CtxErrors : CtxDone(r, e)
        \/ Timeout(r)

Spec == Init /\ [][Next]_vars

\* cryptcp succeeding: it exits with no error, prints nothing and writes the
\* signature
OkOutcomes == {[err |-> "nil", stdout |-> <<>>, stderr |-> <<>>, file |-> "sig"]}

\* the arguments of call r when calls run concurrently: each its own payload
ConcInputs(r) ==
    [thumbprint : Thumbprints, pin : Pins, dataBase64 : {Base64Encode(<<r>>)},
     attachSignature : {"nil", "true"}, signType : {-1}]

InitConc ==
    /\ cli = New(<<"M", "Y">>, <<>>, 0, FALSE)
    /\ fs = [d \in DirNames |-> NoDir]
    /\ call = [r \in Requests |-> Idle]
    /\ log = [r \in Requests |-> {}]

\* MaxRequests concurrent SignDocument calls on one CryptoCLI, against a
\* cryptcp that always succeeds and callers that do not cancel
NextConc ==
    \E r \in Requests :
        \/ \E in \in ConcInputs(r) : Call(r, in)
        \/ \E e \in IOErrors : MkdirTemp(r, e)
        \/ \E e \in IOErrors, tsp \in GetRandomTSPServer(cli.tspServers) :
              Prepare(r, e, tsp)
        \/ StartProc(r)
        \/ \E o \in OkOutcomes : ProcExit(r, o)
        \/ Classify(r)
        \/ \E ok \in BOOLEAN : Finish(r, ok)
        \/ \E ok \in BOOLEAN : Release(r, ok)

SpecConc == InitConc /\ [][NextConc]_vars

\* stores, pools and arguments in every mode the command is built for
StoresArgs == {<<"M", "Y">>, <<"u", "M", "y">>, <<"C", "A">>, <<>>}

TSPServerListsArgs == {<< <<"tsp.a">> >>, << <<"tsp.a">>, <<"tsp.b">> >>}

ThumbprintsArgs == {<<"AB12">>, <<>>}

PinsArgs == {<<"1234">>, <<>>}

InputsArgs ==
    [thumbprint : ThumbprintsArgs, pin : PinsArgs, dataBase64 : {<<19, 22, 4, Pad>>},
     attachSignature : {"nil", "true", "false"}, signType : {-1, 0, 1, 2}]

InitArgs ==
    /\ cli \in {New(s, t, st, sk) : s \in StoresArgs, t \in TSPServerListsArgs,
                                    st \in {0, 1, 2}, sk \in BOOLEAN}
    /\ fs = [d \in DirNames |-> NoDir]
    /\ call = [r \in Requests |-> Idle]
    /\ log = [r \in Requests |-> {}]

\* one SignDocument call in any mode, against a cryptcp that succeeds and a
\* caller that does not cancel
NextArgs ==
    \E r \in {1} :
        \/ \E in \in InputsArgs : Call(r, in)
        \/ \E e \in IOErrors : MkdirTemp(r, e)
        \/ \E e \in IOErrors, tsp \in GetRandomTSPServer(cli.tspServers) :
              Prepare(r, e, tsp)
        \/ StartProc(r)
        \/ \E o \in OkOutcomes : ProcExit(r, o)
        \/ Classify(r)
        \/ \E ok \in BOOLEAN : Finish(r, ok)
        \/ \E ok \in BOOLEAN : Release(r, ok)

SpecArgs == InitArgs /\ [][NextArgs]_vars

\* pools of no, one, two and three servers
TSPPools ==
    {<<>>, << <<"tsp.a">> >>, << <<"tsp.a">>, <<"tsp.b">> >>,
     << <<"tsp.a">>, <<"tsp.b">>, <<"tsp.c">> >>}

InputsTSP ==
    [thumbprint : Thumbprints, pin : Pins, dataBase64 : {<<19, 22, 4, Pad>>},
     attachSignature : {"nil"}, signType : {-1}]

\* a CryptoCLI for CAdES-T signatures with any of the pools (the empty one as
\* in InitNoTSP)
InitTSP ==
    /\ cli \in {[New(<<"M", "Y">>, t, 1, FALSE) EXCEPT !.tspServers = t] : t \in TSPPools}
    /\ fs = [d \in DirNames |-> NoDir]
    /\ call = [r \in Requests |-> Idle]
    /\ log = [r \in Requests |-> {}]

\* two concurrent SignDocument calls for a CAdES-T signature on one CryptoCLI,
\* against a cryptcp that succeeds and callers that do not cancel
NextTSP ==
    \E r \in {1, 2} :
        \/ \E in \in InputsTSP : Call(r, in)
        \/ \E e \in IOErrors : MkdirTemp(r, e)
        \/ \E e \in IOErrors, tsp \in GetRandomTSPServer(cli.tspServers) :
              Prepare(r, e, tsp)
        \/ StartProc(r)
        \/ \E o \in OkOutcomes : ProcExit(r, o)
        \/ Classify(r)
        \/ \E ok \in BOOLEAN : Finish(r, ok)
        \/ \E ok \in BOOLEAN : Release(r, ok)

SpecTSP == InitTSP /\ [][NextTSP]_vars

\* a CryptoCLI whose tspServers is empty: New was given no servers after the
\* application had emptied the exported variable DefaultTSPServers, or the
\* CryptoCLI is one that New did not build
InitNoTSP ==
    /\ cli \in {[New(s, <<>>, st, FALSE) EXCEPT !.tspServers = <<>>] :
                    s \in Stores, st \in {0, 1}}
    /\ fs = [d \in DirNames |-> NoDir]
    /\ call = [r \in Requests |-> Idle]
    /\ log = [r \in Requests |-> {}]

\* one SignDocument call on a CryptoCLI with no TSP server
SpecNoTSP == InitNoTSP /\ [][Next]_vars

(* ------------------------------- claims -------------------------------- *)

\* the call has returned to its caller
Done(r) == call[r].pc = "done"

\* the return statement has been executed: sig and err are the values returned
Returned(r) == call[r].pc \in {"cleanup", "done"}

\* the text the classification searches, written out from the result
SearchedText(res) ==
    ToLower((IF res.err = "nil" THEN <<"<nil>">> ELSE <<res.err>>)
            \o <<" ">> \o res.stdout \o <<" ">> \o res.stderr)

\* C1: when attempts 1 and 2 are retryable failures and attempt 3 succeeds,
\* cryptcp has been executed exactly 3 times and the call returns the
\* signature and no error.
C1_RetryThenSuccess ==
    \A r \in Requests :
        (Done(r) /\ call[r].outcomes = <<"Retryable", "Retryable", "Success">>)
        => /\ call[r].numExec = 3
           /\ call[r].err = NilErr
           /\ call[r].sig # <<>>

\* C2: an attempt classified as a fatal failure is the last one: the loop has
\* ended, cryptcp has been executed once per attempt and never again, and the
\* call returns no signature and an error that carries this attempt's
\* diagnostic.
C2_FatalStops ==
    \A r \in Requests : \A i \in DOMAIN call[r].outcomes :
        call[r].outcomes[i] = "Fatal"
        => /\ i = Len(call[r].outcomes)
           /\ call[r].pc \in {"finish", "cleanup", "done"}
           /\ call[r].numExec = i
           /\ call[r].lastErr.attempt = i
           /\ Returned(r) => /\ call[r].sig = <<>>
                             /\ call[r].err # NilErr
                             /\ call[r].err.diag.attempt = i
                             /\ call[r].err.diag.stdout = call[r].res.stdout
                             /\ call[r].err.diag.stderr = call[r].res.stderr

\* C2 witness: a fatal failure on attempt 1 with attempts left has returned
\* its error after one execution.
C2_Witness ==
    \E r \in Requests :
        /\ Done(r)
        /\ call[r].outcomes = <<"Fatal">>
        /\ call[r].numExec = 1
        /\ call[r].err.diag.attempt = 1

\* the step of call r that classifies an attempt
ClassifyStep(r) == call[r].pc = "classify" /\ call'[r].pc # "classify"

\* the classifying step treats the attempt as a success: it logs the success
\* and leaves the loop without recording an error for the attempt
TreatedAsSuccess(r) ==
    /\ call'[r].pc = "finish"
    /\ call'[r].lastErr = call[r].lastErr
    /\ LogEntry("info", "signature created successfully", {}) \in log'[r]

\* C3: an attempt is treated as a success exactly when the exit error is nil,
\* the expected output file exists and the lower-cased text of exit error,
\* stdout and stderr does not contain "error:"; and a call that returns a
\* signature returns the content of an existing output file.
C3_SuccessIffAllThree ==
    [][\A r \in Requests :
          /\ ClassifyStep(r) =>
                (TreatedAsSuccess(r) <=>
                    /\ call[r].res.err = "nil"
                    /\ fs[call[r].workDir].exists
                    /\ fs[call[r].workDir].files[<<"data.txt", call[r].fileExt>>] # NoFile
                    /\ ~Contains(SearchedText(call[r].res), <<"error", ":">>))
          /\ (call'[r].pc = "cleanup" /\ call'[r].sig # <<>>) =>
                /\ fs[call[r].workDir].files[<<"data.txt", call[r].fileExt>>] # NoFile
                /\ call[r].outcomes[Len(call[r].outcomes)] = "Success"]_vars

\* C3 witness: an attempt with a nil exit error and no error text, but without
\* the output file, has been classified and was not a success.
C3_Witness ==
    \E r \in Requests :
        /\ call[r].pc = "finish"
        /\ call[r].res = [err |-> "nil", stdout |-> <<>>, stderr |-> <<>>]
        /\ ~SignFileExists(call[r])
        /\ call[r].lastErr.attempt = call[r].attempt
        /\ call[r].lastErr.msg = "signature file not created"

\* C4: a retryable failure reaches the caller only when all 3 attempts have
\* been made; when a later attempt succeeds the caller gets the signature and
\* no error.
C4_TransientSuppressed ==
    \A r \in Requests :
        Done(r) =>
            /\ (call[r].err # NilErr /\ call[r].err.diag # NoDiag
                /\ Contains(SearchedText(call[r].err.diag), <<"http", " ", "error">>))
               => Len(call[r].outcomes) = maxAttempts
            /\ (\E i \in DOMAIN call[r].outcomes :
                    /\ call[r].outcomes[i] = "Retryable"
                    /\ call[r].outcomes[Len(call[r].outcomes)] = "Success")
               => call[r].err = NilErr

\* C5: cryptcp is never executed more than 3 times for one call; a retryable
\* failure of attempt 3 ends the loop and the call returns an error carrying
\* the diagnostic of attempt 3.
C5_AtMostThree ==
    \A r \in Requests :
        /\ call[r].numExec <= 3
        /\ Len(call[r].outcomes) <= 3
        /\ (Len(call[r].outcomes) = 3 /\ call[r].outcomes[3] = "Retryable")
           => /\ call[r].pc \in {"finish", "cleanup", "done"}
              /\ call[r].lastErr.attempt = 3
              /\ Returned(r) => /\ call[r].sig = <<>>
                                /\ call[r].err # NilErr
                                /\ call[r].err.diag.attempt = 3
                                /\ call[r].err.diag.stdout = call[r].res.stdout
                                /\ call[r].err.diag.stderr = call[r].res.stderr

\* C5 witness: three retryable failures, three executions, the error of
\* attempt 3 returned.
C5_Witness ==
    \E r \in Requests :
        /\ Done(r)
        /\ call[r].outcomes = <<"Retryable", "Retryable", "Retryable">>
        /\ call[r].numExec = 3
        /\ call[r].err.diag.attempt = 3

\* C6 as claimed: once a call that created a workspace has returned, the
\* workspace directory does not exist.
C6_WorkspaceGone ==
    \A r \in Requests :
        (Done(r) /\ call[r].workDir # 0) => ~fs[call[r].workDir].exists

\* C6 amended: once a call that created a workspace has returned, on whatever
\* path, the removal of the workspace directory has been run, and the
\* directory does not exist unless that removal failed.
C6_WorkspaceReleased ==
    \A r \in Requests :
        (Done(r) /\ call[r].workDir # 0)
        => /\ call[r].removed # "pending"
           /\ call[r].removed = "ok" => ~fs[call[r].workDir].exists

\* C6 witness: a call cancelled before the first attempt has returned and its
\* workspace, which held the data file, is gone.
C6_Witness ==
    \E r \in Requests :
        /\ Done(r)
        /\ call[r].workDir # 0
        /\ call[r].err.msg = "context cancelled before cryptcp execution"
        /\ call[r].removed = "ok"
        /\ ~fs[call[r].workDir].exists

\* C7: a call that has returned gave either a signature and no error, or the
\* empty string and an error.
C7_ArtifactXorError ==
    \A r \in Requests :
        Done(r) => \/ call[r].sig # <<>> /\ call[r].err = NilErr
                   \/ call[r].sig = <<>> /\ call[r].err # NilErr

\* C8: every error a call returns wraps ErrSignature.
C8_ErrorsWrapErrSignature ==
    \A r \in Requests :
        (Returned(r) /\ call[r].err # NilErr) => ErrorsIs(call[r].err, "ErrSignature")

\* C8 witness: the signature file could not be read and the call returned the
\* error of that.
C8_Witness ==
    \E r \in Requests :
        /\ Done(r)
        /\ call[r].err.msg = "read signature file"
        /\ call[r].err.wraps = "ErrSignature"

\* C9: no call to the Logger carries the PIN.
C9_PinNeverLogged ==
    \A r \in Requests : \A e \in log[r] :
        \A v \in e.values : ~Contains(v, call[r].pin)

\* a call that holds a workspace
InFlight(r) == call[r].pc \in {"write", "start", "sleep", "running", "classify", "finish", "cleanup"}

\* C10: calls in flight at the same time hold pairwise distinct workspace
\* directories, and a call that returns a signature returns the encoding of
\* the signature of its own payload, which is what its own cryptcp wrote.
C10_Isolation ==
    /\ \A r1, r2 \in Requests :
          (r1 # r2 /\ InFlight(r1) /\ InFlight(r2)) => call[r1].workDir # call[r2].workDir
    /\ \A r \in Requests :
          (Returned(r) /\ call[r].err = NilErr)
          => call[r].sig = Base64Encode(<<48>> \o Base64Decode(call[r].dataBase64))

\* C10 witness: all calls are in flight at once, and one has its signature.
C10_Witness ==
    /\ \A r \in Requests : InFlight(r)
    /\ \E r \in Requests : call[r].pc = "cleanup" /\ call[r].sig # <<>>

\* C11 as stated: when the deadline of the call ends an attempt in flight, the
\* call returns a deadline error that is no tool error and does not come from
\* the diagnostic of a classified attempt.
C11_DeadlineErrorDistinct ==
    \A r \in Requests :
        (Returned(r) /\ call[r].killed)
        => /\ call[r].err # NilErr
           /\ call[r].err.msg # "attempt failed"
           /\ call[r].err.diag = NoDiag

\* C11: one signCtx governs every attempt of the call: once it has ended an
\* attempt in flight it stays done, the process is gone and no later attempt
\* gets a running process; the killed attempt is classified like any failed
\* attempt, and the call returns no signature and the ErrSignature error of
\* tool failures, which carries the diagnostic of a classified attempt.
C11_DeadlineClassifiedAsFailure ==
    \A r \in Requests :
        call[r].killed
        => /\ call[r].signCtxErr # "nil"
           /\ call[r].pc # "running"
           /\ call[r].procs = 0
           /\ call[r].pc \in {"sleep", "start", "finish"} \cup {"cleanup", "done"}
                => /\ call[r].lastErr # NoDiag
                   /\ call[r].lastErr.err \in {"signal: killed", call[r].signCtxErr}
           /\ Returned(r)
                => /\ call[r].sig = <<>>
                   /\ ErrorsIs(call[r].err, ErrSignature)
                   /\ call[r].err.msg = "attempt failed"
                   /\ call[r].err.diag = call[r].lastErr

\* C11 witness: the 5 minutes ended while attempt 1 was running, the process
\* was killed and the call has returned the error of that attempt.
C11_Witness ==
    \E r \in Requests :
        /\ Done(r)
        /\ call[r].killed
        /\ call[r].signCtxErr = "context deadline exceeded"
        /\ call[r].ctxErr = "nil"
        /\ call[r].numExec = 1
        /\ call[r].err.diag.err = "signal: killed"

\* C12: a call whose ctx was done before the check that precedes the first
\* attempt never executes cryptcp and returns no signature; when the payload
\* was decoded and the data file written, the error is the one of that check,
\* "context cancelled before cryptcp execution".
C12_CancelledBeforeFirstAttempt ==
    \A r \in Requests :
        call[r].ctxDoneEarly
        => /\ call[r].numExec = 0
           /\ call[r].procs = 0
           /\ call[r].pc \in {"idle", "mkdir", "write", "cleanup", "done"}
           /\ Returned(r)
                => /\ call[r].sig = <<>>
                   /\ call[r].err # NilErr
                   /\ call[r].err.msg \notin {"base64 decode", "create work directory",
                                             "write data file"}
                        => /\ call[r].err.msg = "context cancelled before cryptcp execution"
                           /\ call[r].err.diag = NoDiag

\* C12 witness: a call with a well-formed payload whose deadline had expired
\* before the first attempt has returned that error, with no execution.
C12_Witness ==
    \E r \in Requests :
        /\ Done(r)
        /\ call[r].ctxErr = "context deadline exceeded"
        /\ call[r].err.msg = "context cancelled before cryptcp execution"
        /\ call[r].numExec = 0

\* C13: on a CryptoCLI with no TSP server, a call whose effective signature
\* type is 1 (CAdES-T) never reaches the attempt loop: cryptcp is never
\* executed, nothing is retried, and once the data file is written the call
\* returns no signature and the error "TSP server is required".
C13_NoTSPFailsBeforeAttempts ==
    \A r \in Requests :
        (/\ call[r].pc # "idle"
         /\ Len(cli.tspServers) = 0
         /\ EffectiveSignType(cli, call[r].signType) = 1)
        => /\ call[r].pc \in {"mkdir", "write", "cleanup", "done"}
           /\ call[r].numExec = 0
           /\ call[r].attempt = 0
           /\ call[r].outcomes = <<>>
           /\ call[r].delays = <<>>
           /\ Returned(r)
                => /\ call[r].sig = <<>>
                   /\ ErrorsIs(call[r].err, ErrSignature)
                   /\ call[r].err.msg \notin {"base64 decode", "create work directory",
                                             "write data file"}
                        => call[r].err.msg = "TSP server is required"

\* C13 witness: a call asking for CAdES-T on a CryptoCLI with no TSP server
\* has returned the configuration error without executing cryptcp.
C13_Witness ==
    \E r \in Requests :
        /\ Done(r)
        /\ Len(cli.tspServers) = 0
        /\ call[r].signType = 1
        /\ call[r].err.msg = "TSP server is required"
        /\ call[r].numExec = 0

\* C14: a call whose payload is not base64 (its length is no multiple of 4,
\* or it holds a character outside the alphabet) has returned at once the
\* error "base64 decode" and no signature: cryptcp was not executed, no work
\* directory and no data file were created, nothing was logged.
C14_BadPayloadFailsAtOnce ==
    \A r \in {1} :
        (/\ call[r].pc # "idle"
         /\ \/ Len(call[r].dataBase64) % 4 # 0
            \/ \E i \in DOMAIN call[r].dataBase64 : call[r].dataBase64[i] > Pad)
        => /\ Done(r)
           /\ call[r].sig = <<>>
           /\ ErrorsIs(call[r].err, ErrSignature)
           /\ call[r].err.msg = "base64 decode"
           /\ call[r].numExec = 0
           /\ call[r].procs = 0
           /\ call[r].workDir = 0
           /\ call[r].removed = "pending"
           /\ \A d \in DirNames : fs[d] = NoDir
           /\ log[r] = {}

\* C14 witness: a call with a payload that holds a character outside the
\* base64 alphabet has returned.
C14_Witness ==
    \E r \in {1} :
        /\ Done(r)
        /\ call[r].dataBase64 = <<19, 16, 65, 20>>
        /\ call[r].err.msg = "base64 decode"

\* C15 as stated: when ctx or signCtx is done while the call is in the pause
\* between two attempts, the call leaves the pause without having slept the
\* backoff, and no process of a further attempt is started.
C15_BackoffInterruptible ==
    [][\A r \in Requests :
          (/\ call[r].pc = "sleep"
           /\ call[r].signCtxErr # "nil"
           /\ call'[r].pc # "sleep")
          => /\ call'[r].delays = call[r].delays
             /\ call'[r].procs = 0]_vars

\* C16: an attempt that is not treated as a success is a retryable failure
\* exactly when the lower-cased text of exit error, stdout and stderr contains
\* "http error", and a fatal one otherwise, whichever success condition
\* failed: before the last attempt the loop goes on to the pause exactly in
\* that case, and the error recorded is the one of this attempt.
C16_RetryableIffHTTPError ==
    [][\A r \in Requests :
          (ClassifyStep(r) /\ ~TreatedAsSuccess(r))
          => LET http == Contains(SearchedText(call[r].res), <<"http", " ", "error">>)
                 n == call[r].attempt
             IN  /\ call'[r].outcomes =
                       Append(call[r].outcomes, IF http THEN "Retryable" ELSE "Fatal")
                 /\ call'[r].lastErr.attempt = n
                 /\ call'[r].lastErr.err = call[r].res.err
                 /\ call'[r].pc \in {"sleep", "finish"}
                 /\ n < maxAttempts => (call'[r].pc = "sleep" <=> http)
                 /\ n = maxAttempts => call'[r].pc = "finish"]_vars

\* C16 witness: cryptcp exited with no error and printed "HTTP error", only
\* the signature file was missing, and the call is in the pause before a retry.
C16_Witness ==
    \E r \in Requests :
        /\ call[r].pc = "sleep"
        /\ call[r].lastErr.err = "nil"
        /\ call[r].lastErr.msg = "signature file not created"
        /\ call[r].lastErr.stdout = <<"HTTP", " ", "error">>
        /\ call[r].lastErr.stderr = <<>>
        /\ call[r].outcomes = <<"Retryable">>

\* C17: the attempts of a call run one after another: a call has at most one
\* cryptcp process alive, and only while it waits in cmd.Run; when the
\* process of attempt n is started, and until it is classified, cryptcp has
\* been executed n times and the n - 1 earlier attempts have all exited and
\* been classified.
C17_AttemptsSequential ==
    \A r \in Requests :
        /\ call[r].procs \in {0, 1}
        /\ call[r].procs = 1 <=> call[r].pc = "running"
        /\ call[r].pc \in {"running", "classify"}
             => /\ call[r].numExec = call[r].attempt
                /\ Len(call[r].outcomes) = call[r].attempt - 1
        /\ call[r].pc \in {"sleep", "start"}
             => /\ call[r].numExec = call[r].attempt - 1
                /\ Len(call[r].outcomes) = call[r].attempt - 1
        /\ Len(call[r].usedTSP) = call[r].numExec

\* C17 witness: the process of attempt 2 is running after attempt 1 has been
\* classified as a retryable failure.
C17_Witness ==
    \E r \in Requests :
        /\ call[r].pc = "running"
        /\ call[r].attempt = 2
        /\ call[r].procs = 1
        /\ call[r].numExec = 2
        /\ call[r].outcomes = <<"Retryable">>

\* C18 as stated: for a CAdES-T signature the TSP server is selected again for
\* every attempt: when attempt n is executed, getRandomTSPServer has been
\* called n times.
C18_TSPReselectedPerAttempt ==
    \A r \in Requests :
        (call[r].effectiveSignType = 1 /\ call[r].pc \in {"running", "classify"})
        => call[r].numSelect = call[r].attempt

\* C18: for a CAdES-T signature the TSP server is selected once per call,
\* before the loop, from the pool of the CryptoCLI; the arguments are built
\* once with it, and every attempt of the call, retries included, executes
\* cryptcp with that same server.
C18_TSPSelectedOncePerCall ==
    \A r \in Requests :
        (call[r].effectiveSignType = 1 /\ call[r].attempt >= 1)
        => /\ call[r].numSelect = 1
           /\ \E i \in DOMAIN cli.tspServers : cli.tspServers[i] = call[r].selectedTSP
           /\ TSPArg(call[r].args) = call[r].selectedTSP
           /\ \A i \in DOMAIN call[r].usedTSP : call[r].usedTSP[i] = call[r].selectedTSP

\* C18 witness: with a pool of two servers, a retry of a CAdES-T signature is
\* running, and both executions were given the same server.
C18_Witness ==
    \E r \in Requests :
        /\ Len(cli.tspServers) >= 2
        /\ call[r].effectiveSignType = 1
        /\ call[r].pc = "running"
        /\ call[r].attempt = 2
        /\ Len(call[r].usedTSP) = 2
        /\ call[r].usedTSP[1] = call[r].usedTSP[2]

\* C19 as stated: after attempt k < 3 was a retryable failure the call sleeps
\* k - 1 seconds: the i-th pause of a call lasts i - 1 seconds.
C19_BackoffKMinusOne ==
    \A r \in Requests : \A i \in DOMAIN call[r].delays :
        call[r].delays[i] = i - 1

\* C19: after attempt k < 3 was a retryable failure the attempt counter
\* becomes k + 1 and the call then sleeps k seconds (attempt - 1 of the new
\* counter): 1 second before attempt 2, 2 seconds before attempt 3.  Every
\* attempt after the first is preceded by exactly one pause, and no pause
\* precedes attempt 1.
C19_BackoffEqualsFailedAttempt ==
    \A r \in Requests :
        /\ \A i \in DOMAIN call[r].delays :
              /\ call[r].delays[i] = i
              /\ i < maxAttempts
              /\ call[r].outcomes[i] = "Retryable"
        /\ call[r].attempt <= 1 => call[r].delays = <<>>
        /\ call[r].pc = "sleep"
             => /\ call[r].attempt >= 2
                /\ Len(call[r].delays) = call[r].attempt - 2
                /\ call[r].outcomes[call[r].attempt - 1] = "Retryable"
        /\ call[r].pc \in {"start", "running", "classify"}
             => Len(call[r].delays) = call[r].attempt - 1

\* C19 witness: attempt 3 is running after pauses of 1 and 2 seconds.
C19_Witness ==
    \E r \in Requests :
        /\ call[r].pc = "running"
        /\ call[r].attempt = 3
        /\ call[r].delays = <<1, 2>>
        /\ call[r].outcomes = <<"Retryable", "Retryable">>

\* C20: when attempt 1 of a call is a success, cryptcp is executed exactly
\* once and the call never pauses; the call then returns either the error of
\* a failed os.ReadFile or, with no error, the standard base64 text of the
\* bytes of the signature file cryptcp left in the work directory.
C20_FirstAttemptSuccess ==
    \A r \in Requests :
        (call[r].outcomes # <<>> /\ call[r].outcomes[1] = "Success")
        => /\ call[r].outcomes = <<"Success">>
           /\ call[r].numExec = 1
           /\ call[r].delays = <<>>
           /\ call[r].pc \in {"finish", "cleanup", "done"}
           /\ LogEntry("warn", "retrying signature", {}) \notin log[r]
           /\ (Returned(r) /\ call[r].err # NilErr)
                => /\ call[r].err.msg = "read signature file"
                   /\ call[r].sig = <<>>
           /\ (Returned(r) /\ call[r].err = NilErr)
                => /\ Base64Valid(call[r].sig)
                   /\ Base64Decode(call[r].sig) \in {ToolSign(call[r].data), <<>>}
           /\ (call[r].pc = "cleanup" /\ call[r].err = NilErr)
                => Base64Decode(call[r].sig) =
                      fs[call[r].workDir].files[SignFile(call[r].fileExt)]

\* C20 witness: attempt 1 succeeded and the call has returned, with no error,
\* the base64 text of the signature cryptcp wrote.
C20_Witness ==
    \E r \in Requests :
        /\ Done(r)
        /\ call[r].outcomes = <<"Success">>
        /\ call[r].numExec = 1
        /\ call[r].err = NilErr
        /\ call[r].sig # <<>>
        /\ Base64Decode(call[r].sig) = ToolSign(call[r].data)

C22_RandomTSPServer ==
    [][/\ cli' = cli
       /\ \A r \in Requests :
            (call[r].numSelect = 0 /\ call'[r].numSelect = 1)
            => LET pool == cli.tspServers
                   sel == call'[r].selectedTSP
               IN  /\ Len(pool) = 0 => sel = <<>>
                   /\ Len(pool) = 1 => sel = pool[1]
                   /\ Len(pool) >= 2 => \E i \in DOMAIN pool : sel = pool[i]]_vars

\* C22 witness: two calls on a CryptoCLI with a pool of three servers have
\* each selected a server, and not the same one.
C22_Witness ==
    \E r1, r2 \in Requests :
        /\ Len(cli.tspServers) = 3
        /\ call[r1].numSelect = 1
        /\ call[r2].numSelect = 1
        /\ call[r1].selectedTSP = <<"tsp.c">>
        /\ call[r2].selectedTSP = <<"tsp.a">>

\* C23 as stated: a failure to tear the work directory down is surfaced too:
\* a call whose os.RemoveAll failed has returned an error.
C23_TeardownFailureSurfaced ==
    \A r \in Requests :
        (Done(r) /\ call[r].removed = "failed") => call[r].err # NilErr

\* C23: a failure of os.MkdirTemp or of os.WriteFile of the data file ends the
\* call at once: it returns no signature and an ErrSignature error that names
\* the operation and carries the text of its error, and cryptcp is never
\* executed.  A failure to remove the work directory is not surfaced: the
\* deferred os.RemoveAll changes neither the signature nor the error returned.
C23_ResourceErrors ==
    [][\A r \in Requests :
          /\ (call[r].ioErr = "nil" /\ call'[r].ioErr # "nil")
               => /\ call[r].pc \in {"mkdir", "write"}
                  /\ call'[r].pc \in {"cleanup", "done"}
                  /\ call'[r].sig = <<>>
                  /\ ErrorsIs(call'[r].err, ErrSignature)
                  /\ call'[r].err.msg = IF call[r].pc = "mkdir"
                                        THEN "create work directory"
                                        ELSE "write data file"
                  /\ call'[r].err.diag.err = call'[r].ioErr
                  /\ call'[r].ioErr \in IOErrors
          /\ call[r].ioErr # "nil"
               => /\ call'[r].pc \in {"cleanup", "done"}
                  /\ call'[r].numExec = 0
                  /\ call'[r].ioErr = call[r].ioErr
          /\ (call[r].pc = "cleanup" /\ call'[r].pc # "cleanup")
               => /\ call'[r].pc = "done"
                  /\ call'[r].removed \in {"ok", "failed"}
                  /\ call'[r].sig = call[r].sig
                  /\ call'[r].err = call[r].err]_vars

\* C23 witness: the data file could not be written and the work directory
\* could not be removed; the call has returned the error of the write alone.
C23_Witness ==
    \E r \in Requests :
        /\ Done(r)
        /\ call[r].ioErr = "no space left on device"
        /\ call[r].err.msg = "write data file"
        /\ call[r].err.diag.err = "no space left on device"
        /\ call[r].removed = "failed"
        /\ fs[call[r].workDir].exists

\* C24 as stated: when an attempt after the first is treated as a success,
\* the signature file found by os.Stat was written by the process of that
\* attempt, not left by an earlier attempt of the call.
C24_SignFileOfThisAttempt ==
    [][\A r \in Requests :
          (ClassifyStep(r) /\ TreatedAsSuccess(r) /\ call[r].attempt >= 2)
          => call[r].wrote]_vars

====
